---- MODULE Spec2Model ----
(***************************************************************************)
(* A model of the skill-to-issue matching service: the issue matcher       *)
(* (src/issue_matcher.py), the profile analyzer (src/github_analyzer.py),  *)
(* the skill lexicon (src/skill_extractor.py) and the HTTP handlers        *)
(* (src/mcp_server.py).                                                    *)
(*                                                                         *)
(* Conventions.  Python str values are TLA+ strings; str.lower() and the   *)
(* substring test `a in b` are computed character by character.  Scores    *)
(* are multiples of 0.5 in the code and are kept here as integers counted  *)
(* in halves (relevance_score = 2 * the Python float), so every sum and    *)
(* comparison is exact.  A timestamp is [valid, day]: whether              *)
(* datetime.fromisoformat accepts the text, and the day it denotes.        *)
(***************************************************************************)
EXTENDS Integers, Sequences, FiniteSets, TLC

VARIABLES
    user_skills,     \* the UserSkills passed to find_matching_issues
    max_results,     \* find_matching_issues' max_results
    pc,              \* position in the request being served
    li,              \* index of the language loop (issue_matcher.py:64)
    ti,              \* index of the technology loop (issue_matcher.py:71)
    ri,              \* index of the popular-repository loop (issue_matcher.py:131)
    count,           \* count / repo_count of the running search loop
    issues,          \* the local list `issues` of the running search
    all_issues,      \* find_matching_issues' all_issues
    unique_issues,   \* the list returned by _remove_duplicates (scored and sorted in place)
    result,          \* the list find_matching_issues returns
    raised,          \* whether find_matching_issues ended in its except branch
    failed,          \* the place in unique_issues of the issue whose scoring raised, or 0
    endpoint,        \* the route that is served; "direct" for a direct call, "search" for
                     \* a direct call of _search_issues_by_language
    request,         \* the body of the HTTP request
    status,          \* the HTTP status answered, 0 while there is none
    github_user,     \* the user as the platform shows it
    github_issues,   \* the records the platform's searches and listings yield
    issue_types,     \* find_matching_issues' issue_types
    fetched,         \* the record the running search loop has fetched last (`issue`)
    lookup_failed,   \* whether a search or a repository listing has raised
    suspended        \* the call of find_matching_issues that waits at an await while
                     \* this one runs: its local variables; NoFrame when there is none

matcher_vars == <<pc, li, ti, ri, count, issues, all_issues, unique_issues, result,
                  raised, failed>>

server_vars == <<endpoint, request, status, github_user, github_issues, suspended>>

search_vars == <<issue_types, fetched, lookup_failed>>

vars == <<user_skills, max_results, matcher_vars, server_vars, search_vars>>

----------------------------------------------------------------------------
(* Python strings *)

UpperChars == "ABCDEFGHIJKLMNOPQRSTUVWXYZ"

LowerChars == "abcdefghijklmnopqrstuvwxyz"

\* the lower-case letter of each upper-case letter
LowerOf ==
    [c \in {SubSeq(UpperChars, i, i) : i \in 1..Len(UpperChars)} |->
        LET i == CHOOSE k \in 1..Len(UpperChars) : SubSeq(UpperChars, k, k) = c
        IN SubSeq(LowerChars, i, i)]

\* one character of str.lower()
LowerChar(c) == IF c \in DOMAIN LowerOf THEN LowerOf[c] ELSE c

\* str.lower()
RECURSIVE Lower(_)
Lower(s) ==
    IF s = "" THEN ""
    ELSE LowerChar(SubSeq(s, 1, 1)) \o Lower(SubSeq(s, 2, Len(s)))

\* the Python test `sub in s` on strings
Contains(sub, s) ==
    \E i \in 1..(Len(s) + 1) :
        /\ i + Len(sub) - 1 <= Len(s)
        /\ SubSeq(s, i, i + Len(sub) - 1) = sub

\* the elements of a list
Range(seq) == {seq[i] : i \in DOMAIN seq}

\* the slice seq[:n] for n >= 0
Take(seq, n) == SubSeq(seq, 1, IF n < Len(seq) THEN n ELSE Len(seq))

----------------------------------------------------------------------------
(* issue_matcher.py: difficulty, conversion, deduplication, scoring, sort *)

\* any(label in labels_lower for label in names)
AnyLabelIn(labels_lower, names) == \E name \in names : name \in Range(labels_lower)

\* any(indicator in body_lower for indicator in indicators)
AnyIndicatorIn(body_lower, indicators) ==
    \E indicator \in indicators : Contains(indicator, body_lower)

\* _determine_difficulty with "advanced" for the issues of the expert labels
DetermineDifficultyAdvancedLabels(labels, body) ==
    LET labels_lower == [i \in DOMAIN labels |-> Lower(labels[i])]
        body_lower == Lower(body)
    IN IF AnyLabelIn(labels_lower, {"good first issue", "beginner", "easy", "starter"})
       THEN "beginner"
       ELSE IF AnyLabelIn(labels_lower, {"intermediate", "medium"})
       THEN "intermediate"
       ELSE IF AnyLabelIn(labels_lower, {"hard", "expert", "complex", "difficult"})
       THEN "advanced"
       ELSE IF AnyLabelIn(labels_lower, {"help wanted", "bug", "enhancement", "feature"})
       THEN "intermediate"
       ELSE IF AnyIndicatorIn(body_lower,
                   {"simple", "easy", "basic", "straightforward", "minor"})
       THEN "beginner"
       ELSE IF AnyIndicatorIn(body_lower,
                   {"complex", "advanced", "architecture", "performance",
                    "optimization", "refactor"})
       THEN "expert"
       ELSE "intermediate"

\* _determine_difficulty with the expert labels tested before the beginner ones
DetermineDifficultyExpertFirst(labels, body) ==
    LET labels_lower == [i \in DOMAIN labels |-> Lower(labels[i])]
        body_lower == Lower(body)
    IN IF AnyLabelIn(labels_lower, {"hard", "expert", "complex", "difficult"})
       THEN "expert"
       ELSE IF AnyLabelIn(labels_lower, {"good first issue", "beginner", "easy", "starter"})
       THEN "beginner"
       ELSE IF AnyLabelIn(labels_lower, {"intermediate", "medium", "help wanted", "bug",
                                         "enhancement", "feature"})
       THEN "intermediate"
       ELSE IF AnyIndicatorIn(body_lower,
                   {"simple", "easy", "basic", "straightforward", "minor"})
       THEN "beginner"
       ELSE IF AnyIndicatorIn(body_lower,
                   {"complex", "advanced", "architecture", "performance",
                    "optimization", "refactor"})
       THEN "expert"
       ELSE "intermediate"

\* IssueMatcher._determine_difficulty
DetermineDifficulty(labels, body) ==
    LET labels_lower == [i \in DOMAIN labels |-> Lower(labels[i])]
        body_lower == Lower(body)
    IN IF AnyLabelIn(labels_lower, {"good first issue", "beginner", "easy", "starter"})
       THEN "beginner"
       ELSE IF AnyLabelIn(labels_lower, {"intermediate", "medium"})
       THEN "intermediate"
       ELSE IF AnyLabelIn(labels_lower, {"hard", "expert", "complex", "difficult"})
       THEN "expert"
       ELSE IF AnyLabelIn(labels_lower, {"help wanted"})
       THEN "intermediate"
       ELSE IF AnyLabelIn(labels_lower, {"bug"})
       THEN "intermediate"
       ELSE IF AnyLabelIn(labels_lower, {"enhancement", "feature"})
       THEN "intermediate"
       ELSE IF AnyIndicatorIn(body_lower,
                   {"simple", "easy", "basic", "straightforward", "minor"})
       THEN "beginner"
       ELSE IF AnyIndicatorIn(body_lower,
                   {"complex", "advanced", "architecture", "performance",
                    "optimization", "refactor"})
       THEN "expert"
       ELSE "intermediate"

\* the value _convert_to_github_issue returns for a record that is no pull
\* request: the GitHubIssue built at issue_matcher.py:217-231
GitHubIssue(issue, matched_skill) ==
    [id |-> issue.id,
     title |-> issue.title,
     body |-> issue.body,
     labels |-> issue.labels,
     updated_at |-> issue.updated_at,
     difficulty |-> DetermineDifficulty(issue.labels, issue.body),
     matched_skills |-> {matched_skill},
     relevance_score |-> 0]

\* the ids of a list of issues, in order
Ids(list) == [i \in DOMAIN list |-> list[i].id]

\* whether position i of the list is the first one carrying its id
\* (issue.id not in seen_ids, issue_matcher.py:274)
FirstSeen(list, i) == \A j \in 1..(i - 1) : list[j].id # list[i].id

\* _remove_duplicates keeping the last record of each id instead of the first
RemoveDuplicatesKeepLast(list) ==
    LET kept == {i \in DOMAIN list :
                    \A j \in (i + 1)..Len(list) : list[j].id # list[i].id}
        Nth(k) == CHOOSE i \in kept : Cardinality({j \in kept : j <= i}) = k
    IN [k \in 1..Cardinality(kept) |-> list[Nth(k)]]

\* IssueMatcher._remove_duplicates
RECURSIVE RemoveDuplicates(_)
RemoveDuplicates(list) ==
    IF list = <<>> THEN <<>>
    ELSE LET front == SubSeq(list, 1, Len(list) - 1)
             issue == list[Len(list)]
         IN IF FirstSeen(list, Len(list))
            THEN Append(RemoveDuplicates(front), issue)
            ELSE RemoveDuplicates(front)

\* the points of one profile language found in the content (line 293): 2.0
LanguagePoints == 4

\* the points of one profile technology found in the content (line 298): 1.5
TechnologyPoints == 3

\* the sum of a list of numbers
RECURSIVE Sum(_)
Sum(list) == IF list = <<>> THEN 0 ELSE list[1] + Sum(Tail(list))

\* the content searched for skills (issue_matcher.py:289)
Content(issue) == Lower(issue.title \o " " \o issue.body)

\* whether a profile skill occurs in the content (lines 292 and 297)
SkillOccurs(skill, content) == Contains(Lower(skill), content)

\* the skill part of the score with `-=` for `+=` at a language found
SkillScoreLanguageSubtracted(content, skills) ==
    LET LangPts(language) == IF SkillOccurs(language, content) THEN LanguagePoints ELSE 0
        TechPts(tech) == IF SkillOccurs(tech, content) THEN TechnologyPoints ELSE 0
    IN Sum([i \in DOMAIN skills.technologies |-> TechPts(skills.technologies[i])])
       - Sum([i \in DOMAIN skills.languages |-> LangPts(skills.languages[i])])

\* the skill part of the score, issue_matcher.py:291-299
SkillScore(content, skills) ==
    LET LangPts(language) == IF SkillOccurs(language, content) THEN LanguagePoints ELSE 0
        TechPts(tech) == IF SkillOccurs(tech, content) THEN TechnologyPoints ELSE 0
    IN Sum([i \in DOMAIN skills.languages |-> LangPts(skills.languages[i])])
       + Sum([i \in DOMAIN skills.technologies |-> TechPts(skills.technologies[i])])

\* the skills the scoring pass records, issue_matcher.py:294, 299, 332
MatchedSkills(content, skills) ==
    {s \in Range(skills.languages) \cup Range(skills.technologies) :
        SkillOccurs(s, content)}

\* the bonus of one label with every test an `if` of its own
LabelBonusEveryCategory(label, experience_level) ==
    LET label_lower == Lower(label)
    IN (IF Contains("good first issue", label_lower)
           /\ experience_level \in {"beginner", "intermediate"} THEN 6 ELSE 0)
       + (IF Contains("help wanted", label_lower) THEN 4 ELSE 0)
       + (IF Contains("bug", label_lower) THEN 2 ELSE 0)
       + (IF Contains("enhancement", label_lower) \/ Contains("feature", label_lower)
          THEN 3 ELSE 0)

\* the bonus of one label, the if/elif chain of issue_matcher.py:303-311
LabelBonus(label, experience_level) ==
    LET label_lower == Lower(label)
    IN IF Contains("good first issue", label_lower)
          /\ experience_level \in {"beginner", "intermediate"}
       THEN 6
       ELSE IF Contains("help wanted", label_lower)
       THEN 4
       ELSE IF Contains("bug", label_lower)
       THEN 2
       ELSE IF Contains("enhancement", label_lower) \/ Contains("feature", label_lower)
       THEN 3
       ELSE 0

\* the label part of the score, issue_matcher.py:302-311
LabelScore(labels, experience_level) ==
    Sum([i \in DOMAIN labels |-> LabelBonus(labels[i], experience_level)])

\* the difficulty part of the score with the one-step bonus for an issue above
\* the profile's level instead of below it
DifficultyScoreStepDown(difficulty, experience_level) ==
    IF difficulty = experience_level
    THEN 4
    ELSE IF \/ experience_level = "beginner" /\ difficulty \in {"intermediate", "advanced"}
            \/ experience_level = "intermediate" /\ difficulty \in {"advanced", "expert"}
    THEN 2
    ELSE 0

\* the difficulty part of the score, issue_matcher.py:314-318
DifficultyScore(difficulty, experience_level) ==
    IF difficulty = experience_level
    THEN 4
    ELSE IF \/ difficulty = "beginner" /\ experience_level \in {"intermediate", "advanced"}
            \/ difficulty = "intermediate" /\ experience_level \in {"advanced", "expert"}
    THEN 2
    ELSE 0

\* the day datetime.now() falls on (issue_matcher.py:323)
NowDay == 100

\* the recency part of the score with the bonus of a month for every recent issue
RecencyScoreMonthOnly(updated_at) ==
    IF ~updated_at.valid
    THEN 0
    ELSE LET days_old == NowDay - updated_at.day
         IN IF days_old <= 30 THEN 1 ELSE 0

\* the recency part of the score, issue_matcher.py:321-329
RecencyScore(updated_at) ==
    IF ~updated_at.valid
    THEN 0
    ELSE LET days_old == NowDay - updated_at.day
         IN IF days_old <= 7 THEN 2
            ELSE IF days_old <= 30 THEN 1
            ELSE 0

\* the score of one issue with the pass of a malformed timestamp given up
ScoreLostAtMalformed(issue, skills) ==
    IF ~issue.updated_at.valid
    THEN 0
    ELSE SkillScore(Content(issue), skills)
         + LabelScore(issue.labels, skills.experience_level)
         + DifficultyScore(issue.difficulty, skills.experience_level)
         + RecencyScore(issue.updated_at)

\* the score of one issue, in halves (issue_matcher.py:283-331)
Score(issue, skills) ==
    SkillScore(Content(issue), skills)
    + LabelScore(issue.labels, skills.experience_level)
    + DifficultyScore(issue.difficulty, skills.experience_level)
    + RecencyScore(issue.updated_at)

\* the same pass with the matched skills added to those the issue came with
ScoreIssueKeepsRetrieved(issue, skills) ==
    [issue EXCEPT !.relevance_score = Score(issue, skills),
                  !.matched_skills = issue.matched_skills
                                     \cup MatchedSkills(Content(issue), skills)]

\* one pass of the loop body of _score_issues: the issue as it is left
ScoreIssue(issue, skills) ==
    [issue EXCEPT !.relevance_score = Score(issue, skills),
                  !.matched_skills = MatchedSkills(Content(issue), skills)]

\* IssueMatcher._score_issues on a whole list
ScoreIssues(list, skills) == [i \in DOMAIN list |-> ScoreIssue(list[i], skills)]

\* the comparison of a sort that lets a later equal element overtake
BeforeOrEqual(a, b) == a.relevance_score >= b.relevance_score

\* whether a goes before b in list.sort(key=relevance_score, reverse=True)
Before(a, b) == a.relevance_score > b.relevance_score

\* insertion of x behind every element that is not after it: the stable order
RECURSIVE InsertSorted(_, _)
InsertSorted(sorted, x) ==
    IF sorted = <<>> THEN <<x>>
    ELSE IF Before(x, sorted[1])
         THEN <<x>> \o sorted
         ELSE <<sorted[1]>> \o InsertSorted(Tail(sorted), x)

\* the list left as it is: the sort forgotten
Unsorted(list) == list

\* scored_issues.sort(key=lambda x: x.relevance_score, reverse=True): stable
RECURSIVE SortByScore(_)
SortByScore(list) ==
    IF list = <<>> THEN <<>>
    ELSE InsertSorted(SortByScore(SubSeq(list, 1, Len(list) - 1)), list[Len(list)])

----------------------------------------------------------------------------
(* skill_extractor.py: the lexicon and extract_from_text *)

\* SkillExtractor.programming_languages, skill_extractor.py:14-20
ProgrammingLanguages ==
    {"python", "javascript", "java", "c++", "c#", "c", "go", "rust", "swift",
     "kotlin", "scala", "ruby", "php", "typescript", "dart", "r", "matlab",
     "perl", "lua", "haskell", "clojure", "elixir", "erlang", "f#", "pascal",
     "cobol", "fortran", "assembly", "bash", "shell", "powershell", "sql",
     "html", "css", "xml", "json", "yaml", "toml"}

\* SkillExtractor.frameworks_libraries, skill_extractor.py:22-30
FrameworksLibraries ==
    {"react", "angular", "vue", "svelte", "django", "flask", "fastapi", "express",
     "spring", "laravel", "rails", "asp.net", "blazor", "gatsby", "next.js",
     "nuxt.js", "electron", "react-native", "flutter", "ionic", "cordova",
     "tensorflow", "pytorch", "keras", "scikit-learn", "pandas", "numpy",
     "opencv", "matplotlib", "seaborn", "plotly", "d3.js", "three.js",
     "bootstrap", "tailwind", "material-ui", "ant-design", "chakra-ui",
     "jquery", "lodash", "moment.js", "axios", "redux", "mobx", "rxjs"}

\* SkillExtractor.databases, skill_extractor.py:32-36
Databases ==
    {"mysql", "postgresql", "sqlite", "mongodb", "redis", "elasticsearch",
     "cassandra", "neo4j", "dynamodb", "firebase", "supabase", "prisma",
     "sequelize", "mongoose", "sqlalchemy", "hibernate", "entity-framework"}

\* SkillExtractor.cloud_platforms, skill_extractor.py:38-42
CloudPlatforms ==
    {"aws", "azure", "gcp", "google-cloud", "heroku", "netlify", "vercel",
     "digitalocean", "linode", "kubernetes", "docker", "jenkins", "gitlab-ci",
     "github-actions", "travis-ci", "circleci"}

\* SkillExtractor.tools_technologies, skill_extractor.py:44-52
ToolsTechnologies ==
    {"git", "github", "gitlab", "bitbucket", "jira", "confluence", "slack",
     "discord", "figma", "sketch", "adobe", "photoshop", "illustrator",
     "webpack", "vite", "parcel", "babel", "eslint", "prettier", "jest",
     "cypress", "selenium", "postman", "insomnia", "swagger", "graphql",
     "rest", "api", "microservices", "serverless", "jamstack", "pwa",
     "spa", "ssr", "ssg", "cms", "headless", "blockchain", "web3", "nft",
     "defi", "smart-contracts", "solidity", "ethereum", "bitcoin"}

\* SkillExtractor.all_technologies, skill_extractor.py:55-58
AllTechnologies == FrameworksLibraries \cup Databases \cup CloudPlatforms \cup ToolsTechnologies

\* the characters \w matches in a lower-cased text
WordChars == "abcdefghijklmnopqrstuvwxyz0123456789_"

\* the same as a set
WordCharSet == {SubSeq(WordChars, i, i) : i \in 1..Len(WordChars)}

\* whether the character at place i of s is one \w matches
IsWordChar(s, i) == i >= 1 /\ i <= Len(s) /\ SubSeq(s, i, i) \in WordCharSet

\* the last place of the run \w+ that begins at place i
RECURSIVE WordEnd(_, _)
WordEnd(s, i) == IF IsWordChar(s, i + 1) THEN WordEnd(s, i + 1) ELSE i

\* the last place of the match of \w+(?:[.-]\w+)* that begins at place i
RECURSIVE TokenEnd(_, _)
TokenEnd(s, i) ==
    LET j == WordEnd(s, i)
    IN IF j + 2 <= Len(s) /\ SubSeq(s, j + 1, j + 1) \in {".", "-"} /\ IsWordChar(s, j + 2)
       THEN TokenEnd(s, j + 2)
       ELSE j

\* re.findall(r'\b\w+(?:[.-]\w+)*\b', s) from place i on, as a set
RECURSIVE WordsFrom(_, _)
WordsFrom(s, i) ==
    IF i > Len(s) THEN {}
    ELSE IF IsWordChar(s, i)
         THEN {SubSeq(s, i, TokenEnd(s, i))} \cup WordsFrom(s, TokenEnd(s, i) + 1)
         ELSE WordsFrom(s, i + 1)

\* compound_terms, skill_extractor.py:79-83
CompoundTerms ==
    {"react-native", "next.js", "vue.js", "node.js", "asp.net",
     "material-ui", "ant-design", "chakra-ui", "github-actions",
     "gitlab-ci", "travis-ci", "google-cloud"}

\* text_variations, skill_extractor.py:98-112
TextVariations ==
    {<<"js", "javascript">>, <<"ts", "typescript">>, <<"py", "python">>,
     <<"cpp", "c++">>, <<"csharp", "c#">>, <<"postgres", "postgresql">>,
     <<"mongo", "mongodb">>, <<"k8s", "kubernetes">>, <<"tf", "tensorflow">>,
     <<"ml", "machine-learning">>, <<"ai", "artificial-intelligence">>,
     <<"nlp", "natural-language-processing">>, <<"cv", "computer-vision">>}

\* SkillExtractor.extract_from_text
ExtractFromText(text) ==
    IF text = "" THEN {}
    ELSE LET text_lower == Lower(text)
             words == WordsFrom(text_lower, 1)
         IN {word \in words : word \in AllTechnologies \/ word \in ProgrammingLanguages}
            \cup {term \in CompoundTerms : Contains(term, text_lower)}
            \cup {v[2] : v \in {u \in TextVariations : u[1] \in words}}

\* SkillExtractor.is_programming_language
IsProgrammingLanguage(tech) == Lower(tech) \in ProgrammingLanguages

\* SkillExtractor.is_technology
IsTechnology(tech) ==
    Lower(tech) \in AllTechnologies \/ Lower(tech) \in ProgrammingLanguages

----------------------------------------------------------------------------
(* github_analyzer.py: analyze_user_skills *)

\* the union of a set of sets
UnionOf(sets) == UNION sets

\* GitHubAnalyzer._extract_languages
ExtractLanguages(repos) ==
    UnionOf({ {Lower(repos[i].languages[k]) : k \in
                  {n \in DOMAIN repos[i].languages :
                      /\ repos[i].languages[n] # ""
                      /\ Lower(repos[i].languages[n]) \notin {"html", "css"}}}
              : i \in DOMAIN repos })

\* the technologies one repository adds, github_analyzer.py:101-116
RepoTechnologies(repo) ==
    ExtractFromText(repo.name)
    \cup (IF repo.description # "" THEN ExtractFromText(repo.description) ELSE {})
    \cup {Lower(repo.topics[k]) : k \in {n \in DOMAIN repo.topics : IsTechnology(repo.topics[n])}}

\* GitHubAnalyzer._extract_technologies
ExtractTechnologies(repos) == UnionOf({RepoTechnologies(repos[i]) : i \in DOMAIN repos})

\* the points of one factor with the thresholds tested from the lowest up
PointsLowestStep(value, steps) ==
    IF \E k \in DOMAIN steps : value >= steps[k][1]
    THEN steps[CHOOSE k \in DOMAIN steps :
                   /\ value >= steps[k][1]
                   /\ \A n \in (k + 1)..Len(steps) : value < steps[n][1]][2]
    ELSE 0

\* the points of one factor of the experience score: the first threshold reached
Points(value, steps) ==
    IF \E k \in DOMAIN steps : value >= steps[k][1]
    THEN steps[CHOOSE k \in DOMAIN steps :
                   /\ value >= steps[k][1]
                   /\ \A n \in 1..(k - 1) : value < steps[n][1]][2]
    ELSE 0

\* GitHubAnalyzer._estimate_experience_level; the account age is kept in
\* quarter days, so that days / 365.25 >= n reads 4 * days >= 1461 * n; a user
\* that is not complete is one whose attributes raise when read (lines
\* 127-129), which the except of lines 175-177 answers
EstimateExperienceLevel(user, repos) ==
    LET account_age == 4 * (user.updated_at - user.created_at)
        active_repos == {i \in DOMAIN Take(repos, 10) :
                            user.updated_at - repos[i].updated_at <= 365}
        score == Points(account_age, <<<<5 * 1461, 3>>, <<2 * 1461, 2>>, <<1461, 1>>>>)
                 + Points(user.public_repos, <<<<50, 3>>, <<20, 2>>, <<5, 1>>>>)
                 + Points(user.followers, <<<<100, 2>>, <<20, 1>>>>)
                 + Points(Cardinality(active_repos), <<<<5, 2>>, <<2, 1>>>>)
    IN IF ~user.complete THEN "intermediate"
       ELSE IF score >= 8 THEN "expert"
       ELSE IF score >= 5 THEN "advanced"
       ELSE IF score >= 2 THEN "intermediate"
       ELSE "beginner"

\* GitHubAnalyzer._extract_skills_from_bio
ExtractSkillsFromBio(bio) ==
    IF bio = "" THEN [languages |-> {}, technologies |-> {}]
    ELSE LET extracted_techs == ExtractFromText(bio)
         IN [languages |-> {tech \in extracted_techs : IsProgrammingLanguage(tech)},
             technologies |-> {tech \in extracted_techs : ~IsProgrammingLanguage(tech)}]

\* the value None of analyze_user_skills, in the shape of a UserSkills
NoSkills == [languages |-> <<>>, technologies |-> <<>>, experience_level |-> "None"]

\* the lists list(a_set) may be: the elements once each, in any order
ListsOf(set) ==
    {list \in [1..Cardinality(set) -> set] : \A a, b \in DOMAIN list : list[a] = list[b] => a = b}

\* user.get_repos(...)[:50], github_analyzer.py:43
ReposOf(user) == Take(user.repos, 50)

\* the languages of the profile, as a set (github_analyzer.py:50, 58)
AllLanguages(user) ==
    ExtractLanguages(ReposOf(user)) \cup ExtractSkillsFromBio(user.bio).languages

\* the technologies of the profile, as a set (github_analyzer.py:51, 59)
AllProfileTechnologies(user) ==
    ExtractTechnologies(ReposOf(user)) \cup ExtractSkillsFromBio(user.bio).technologies

\* analyze_user_skills without the test for an empty repository list
AnalyzeUserSkillsNoRepoTest(user) ==
    IF ~user.found
    THEN {NoSkills}
    ELSE {[languages |-> languages, technologies |-> technologies,
           experience_level |-> EstimateExperienceLevel(user, ReposOf(user))] :
             languages \in ListsOf(AllLanguages(user)),
             technologies \in ListsOf(AllProfileTechnologies(user))}

\* GitHubAnalyzer.analyze_user_skills: the values it may return for a user
\* as the platform shows it
AnalyzeUserSkills(user) ==
    IF ~user.found \/ ReposOf(user) = <<>>
    THEN {NoSkills}
    ELSE {[languages |-> languages, technologies |-> technologies,
           experience_level |-> EstimateExperienceLevel(user, ReposOf(user))] :
             languages \in ListsOf(AllLanguages(user)),
             technologies \in ListsOf(AllProfileTechnologies(user))}

----------------------------------------------------------------------------
(* issue_matcher.py: find_matching_issues and the two searches *)

\* IssueMatcher.popular_repos, issue_matcher.py:26-38
PopularRepos(key) ==
    CASE key = "python" -> <<"python/cpython", "pallets/flask", "django/django", "fastapi/fastapi">>
      [] key = "javascript" -> <<"microsoft/vscode", "facebook/react", "vuejs/vue", "angular/angular">>
      [] key = "java" -> <<"spring-projects/spring-boot", "elastic/elasticsearch", "apache/kafka">>
      [] key = "go" -> <<"kubernetes/kubernetes", "golang/go", "docker/docker", "prometheus/prometheus">>
      [] key = "rust" -> <<"rust-lang/rust", "actix/actix-web", "tokio-rs/tokio">>
      [] key = "typescript" -> <<"microsoft/TypeScript", "nestjs/nest", "typeorm/typeorm">>
      [] key = "c++" -> <<"microsoft/calculator", "opencv/opencv", "tensorflow/tensorflow">>
      [] key = "ruby" -> <<"rails/rails", "jekyll/jekyll", "github/gitignore">>
      [] key = "php" -> <<"laravel/laravel", "symfony/symfony", "composer/composer">>
      [] key = "swift" -> <<"apple/swift", "vapor/vapor", "Alamofire/Alamofire">>
      [] key = "kotlin" -> <<"JetBrains/kotlin", "square/okhttp", "InsertKoinIO/koin">>
      [] OTHER -> <<>>

\* the most candidates the platform hands to one call of find_matching_issues
MaxIssues == 3

\* the largest max_results a caller passes
MaxResultsArg == 3

\* a timestamp datetime.fromisoformat accepts, on the given day
Day(d) == [valid |-> TRUE, day |-> d]

\* the records the platform's searches and repository listings may yield
RawIssues ==
    { [id |-> 2, title |-> "Django crash", body |-> "simple fix", labels |-> <<"Bug">>,
       updated_at |-> Day(80), pull_request |-> FALSE],
      \* the same issue as the platform shows it after an edit
      [id |-> 2, title |-> "Django crash", body |-> "simple fix",
       labels |-> <<"Bug", "help wanted">>, updated_at |-> Day(98), pull_request |-> FALSE],
      [id |-> 3, title |-> "Update docs", body |-> "", labels |-> <<>>,
       updated_at |-> Day(10), pull_request |-> FALSE],
      [id |-> 4, title |-> "Update docs", body |-> "", labels |-> <<>>,
       updated_at |-> Day(10), pull_request |-> FALSE],
      [id |-> 5, title |-> "Add python 3 support", body |-> "", labels |-> <<"enhancement">>,
       updated_at |-> Day(98), pull_request |-> TRUE] }

\* the profiles find_matching_issues is called with
SkillProfiles ==
    { [languages |-> <<"python">>, technologies |-> <<>>, experience_level |-> "beginner"],
      [languages |-> <<"c", "Python">>, technologies |-> <<"django">>,
       experience_level |-> "advanced"],
      [languages |-> <<>>, technologies |-> <<"django", "api">>,
       experience_level |-> "intermediate"] }

\* user_skills.languages[:5], issue_matcher.py:64
TopLanguages == Take(user_skills.languages, 5)

\* user_skills.technologies[:3], issue_matcher.py:71
TopTechnologies == Take(user_skills.technologies, 3)

\* max_results // len(user_skills.languages[:5]), issue_matcher.py:66
LanguageLimit == max_results \div Len(TopLanguages)

\* max_results // max(len(user_skills.technologies[:3]), 1), issue_matcher.py:73
TechnologyLimit ==
    max_results \div (IF Len(TopTechnologies) > 1 THEN Len(TopTechnologies) ELSE 1)

\* repos_to_search[:3] of the running language search, issue_matcher.py:100, 131
ReposToSearch == Take(PopularRepos(Lower(TopLanguages[li])), 3)

\* the most candidates the listings hand to one direct call of the language
\* search: more than the 5 a repository may give
MaxListed == 6

\* whether the platform may still hand over a record (the bound of the model)
MayYield ==
    Len(all_issues) + Len(issues) < (IF endpoint = "search" THEN MaxListed ELSE MaxIssues)

\* the same step without the test for a pull request
ConvertedEvery(list, issue, matched_skill) == Append(list, GitHubIssue(issue, matched_skill))

\* issues after _convert_to_github_issue(issue, matched_skill) and the append
\* that follows it: a pull request converts to None and is left out
\* (issue_matcher.py:122-125, 144-147, 188-191, 205-206)
Converted(list, issue, matched_skill) ==
    IF issue.pull_request THEN list
    ELSE Append(list, GitHubIssue(issue, matched_skill))

\* count after the same step
Counted(n, issue) == IF issue.pull_request THEN n ELSE n + 1

\* no record: the value of `fetched` outside the search loops
NoRecord == [id |-> 0, title |-> "", body |-> "", labels |-> <<>>, updated_at |-> Day(0),
             pull_request |-> FALSE]

\* issue_types when the caller passes None, issue_matcher.py:57-58
DefaultIssueTypes == <<"good first issue", "help wanted", "bug", "enhancement">>

\* the issue types the routes pass when the request names none
\* (mcp_server.py:58, 92)
RouteIssueTypes == <<"good first issue", "help wanted">>

\* the issue types of the direct calls of find_matching_issues: none of them
\* is among the labels the repository listings are filtered by (line 136)
MatcherIssueTypes == <<"enhancement">>

\* the labels handed to repo.get_issues, issue_matcher.py:136
RepoLabels ==
    SelectSeq(issue_types, LAMBDA label : label \in {"good first issue", "help wanted", "bug"})

\* repo.get_issues(state="open", labels=labels), issue_matcher.py:134-137: the
\* platform lists the open issues that carry every label of the list, names
\* compared without regard to case; with an empty list, every open issue
Listed(issue, labels) ==
    \A k \in DOMAIN labels :
        \E n \in DOMAIN issue.labels : Lower(issue.labels[n]) = Lower(labels[k])

\* the local variables of a call of find_matching_issues that has not begun
EntryFrame(skills, limit, types) ==
    [user_skills |-> skills, max_results |-> limit, issue_types |-> types,
     pc |-> "languages", li |-> 1, ti |-> 1, ri |-> 1, count |-> 0, issues |-> <<>>,
     all_issues |-> <<>>, unique_issues |-> <<>>, result |-> <<>>, raised |-> FALSE,
     failed |-> 0, fetched |-> NoRecord, lookup_failed |-> FALSE]

\* no call is waiting
NoFrame == [EntryFrame(<<>>, 0, <<>>) EXCEPT !.pc = "none"]

\* the local variables of the call that runs
Frame ==
    [user_skills |-> user_skills, max_results |-> max_results, issue_types |-> issue_types,
     pc |-> pc, li |-> li, ti |-> ti, ri |-> ri, count |-> count, issues |-> issues,
     all_issues |-> all_issues, unique_issues |-> unique_issues, result |-> result,
     raised |-> raised, failed |-> failed, fetched |-> fetched,
     lookup_failed |-> lookup_failed]

\* the matcher's variables when find_matching_issues is entered
MatcherEntry ==
    /\ li = 1
    /\ ti = 1
    /\ ri = 1
    /\ count = 0
    /\ issues = <<>>
    /\ all_issues = <<>>
    /\ unique_issues = <<>>
    /\ result = <<>>
    /\ raised = FALSE
    /\ failed = 0
    /\ fetched = NoRecord
    /\ lookup_failed = FALSE

\* the request of a direct call: none
NoRequest == [skills |-> <<>>, experience_level |-> "", max_results |-> <<>>, username |-> ""]

\* a user the platform does not know
NoUser == [found |-> FALSE, repos |-> <<>>, bio |-> "", created_at |-> 0, updated_at |-> 0,
           public_repos |-> 0, followers |-> 0, complete |-> TRUE]

InitMatcher ==
    /\ user_skills \in SkillProfiles
    /\ max_results \in 0..MaxResultsArg
    /\ pc = "languages"
    /\ MatcherEntry
    /\ endpoint = "direct"
    /\ request = NoRequest
    /\ status = 0
    /\ github_user = NoUser
    /\ github_issues = RawIssues
    /\ suspended = NoFrame
    /\ issue_types = MatcherIssueTypes

\* issue_matcher.py:64-66 and 96-116: the next language; its search begins
BeginLanguageSearch ==
    /\ pc = "languages"
    /\ li <= Len(TopLanguages)
    /\ pc' = "language_search"
    /\ issues' = <<>>
    /\ count' = 0
    /\ UNCHANGED <<user_skills, max_results, li, ti, ri, all_issues, unique_issues,
                   result, raised, failed, server_vars, search_vars>>

\* issue_matcher.py:117-128: the search yields one more record
LanguageSearchYield(issue) ==
    /\ pc = "language_search"
    /\ MayYield
    /\ count < LanguageLimit
    /\ issues' = Converted(issues, issue, TopLanguages[li])
    /\ count' = Counted(count, issue)
    /\ fetched' = issue
    /\ UNCHANGED <<user_skills, max_results, pc, li, ti, ri, all_issues, unique_issues,
                   result, raised, failed, server_vars, issue_types, lookup_failed>>

\* issue_matcher.py:117-119, 131: the search loop ends (no more records, or
\* count >= limit); the popular repositories follow
LanguageSearchEnd ==
    /\ pc = "language_search"
    /\ pc' = "repos"
    /\ ri' = 1
    /\ count' = 0
    /\ fetched' = NoRecord
    /\ UNCHANGED <<user_skills, max_results, li, ti, issues, all_issues, unique_issues,
                   result, raised, failed, server_vars, issue_types, lookup_failed>>

\* issue_matcher.py:140-147: the listing of repository ri yields one more record
RepoYield(issue) ==
    /\ pc = "repos"
    /\ ri <= Len(ReposToSearch)
    /\ MayYield
    /\ Listed(issue, RepoLabels)
    /\ count < 5
    /\ issues' = Converted(issues, issue, TopLanguages[li])
    /\ count' = Counted(count, issue)
    /\ fetched' = issue
    /\ UNCHANGED <<user_skills, max_results, pc, li, ti, ri, all_issues, unique_issues,
                   result, raised, failed, server_vars, issue_types, lookup_failed>>

\* issue_matcher.py:131, 139-142: the listing of repository ri ends
RepoEnd ==
    /\ pc = "repos"
    /\ ri <= Len(ReposToSearch)
    /\ ri' = ri + 1
    /\ count' = 0
    /\ fetched' = NoRecord
    /\ UNCHANGED <<user_skills, max_results, pc, li, ti, issues, all_issues,
                   unique_issues, result, raised, failed, server_vars, issue_types, lookup_failed>>

\* issue_matcher.py:156 and 68: the language search returns, all_issues is extended
ReturnLanguage ==
    /\ pc = "repos"
    /\ ri > Len(ReposToSearch)
    /\ all_issues' = all_issues \o issues
    /\ issues' = <<>>
    /\ li' = li + 1
    /\ pc' = "languages"
    /\ UNCHANGED <<user_skills, max_results, ti, ri, count, unique_issues, result, raised, failed, server_vars, search_vars>>

\* issue_matcher.py:64, 71: the language loop is over
EndLanguageLoop ==
    /\ pc = "languages"
    /\ li > Len(TopLanguages)
    /\ pc' = "technologies"
    /\ UNCHANGED <<user_skills, max_results, li, ti, ri, count, issues, all_issues,
                   unique_issues, result, raised, failed, server_vars, search_vars>>

\* issue_matcher.py:71-73 and 165-182: the next technology; its search begins
BeginTechnologySearch ==
    /\ pc = "technologies"
    /\ ti <= Len(TopTechnologies)
    /\ pc' = "technology_search"
    /\ issues' = <<>>
    /\ count' = 0
    /\ UNCHANGED <<user_skills, max_results, li, ti, ri, all_issues, unique_issues,
                   result, raised, failed, server_vars, search_vars>>

\* issue_matcher.py:183-194: the search yields one more record
TechnologySearchYield(issue) ==
    /\ pc = "technology_search"
    /\ MayYield
    /\ count < TechnologyLimit
    /\ issues' = Converted(issues, issue, TopTechnologies[ti])
    /\ count' = Counted(count, issue)
    /\ fetched' = issue
    /\ UNCHANGED <<user_skills, max_results, pc, li, ti, ri, all_issues, unique_issues,
                   result, raised, failed, server_vars, issue_types, lookup_failed>>

\* issue_matcher.py:183-185, 199 and 75: the technology search returns
ReturnTechnology ==
    /\ pc = "technology_search"
    /\ all_issues' = all_issues \o issues
    /\ issues' = <<>>
    /\ ti' = ti + 1
    /\ pc' = "technologies"
    /\ fetched' = NoRecord
    /\ UNCHANGED <<user_skills, max_results, li, ri, count, unique_issues, result, raised, failed, server_vars, issue_types, lookup_failed>>

\* issue_matcher.py:71, 78: the technology loop is over, _remove_duplicates runs
RemoveDuplicatesStep ==
    /\ pc = "technologies"
    /\ ti > Len(TopTechnologies)
    /\ unique_issues' = RemoveDuplicates(all_issues)
    /\ pc' = "score"
    /\ UNCHANGED <<user_skills, max_results, li, ti, ri, count, issues, all_issues,
                   result, raised, failed, server_vars, search_vars>>

\* issue_matcher.py:79: _score_issues writes the score and the matched skills
\* into the issue objects, which all_issues holds too
ScoreStep ==
    /\ pc = "score"
    /\ unique_issues' = ScoreIssues(unique_issues, user_skills)
    /\ all_issues' = [i \in DOMAIN all_issues |->
                        IF FirstSeen(all_issues, i)
                        THEN ScoreIssue(all_issues[i], user_skills)
                        ELSE all_issues[i]]
    /\ pc' = "sort"
    /\ UNCHANGED <<user_skills, max_results, li, ti, ri, count, issues, result, raised, failed, server_vars, search_vars>>

\* issue_matcher.py:82-83: the list is sorted in place, its head is returned
SortAndReturn ==
    /\ pc = "sort"
    /\ unique_issues' = SortByScore(unique_issues)
    /\ result' = Take(SortByScore(unique_issues), max_results)
    /\ pc' = "done"
    /\ UNCHANGED <<user_skills, max_results, li, ti, ri, count, issues, all_issues, raised,
                   failed, server_vars, search_vars>>

\* issue_matcher.py:79 and 85-87: the loop body of _score_issues raises at
\* issue k; the issues before it are scored, the exception leaves
\* _score_issues and the except branch of find_matching_issues returns []
ScoreRaises(k) ==
    /\ pc = "score"
    /\ k \in DOMAIN unique_issues
    /\ unique_issues' = [i \in DOMAIN unique_issues |->
                           IF i < k THEN ScoreIssue(unique_issues[i], user_skills)
                           ELSE unique_issues[i]]
    /\ all_issues' = [i \in DOMAIN all_issues |->
                        IF FirstSeen(all_issues, i)
                           /\ Cardinality({j \in 1..i : FirstSeen(all_issues, j)}) < k
                        THEN ScoreIssue(all_issues[i], user_skills)
                        ELSE all_issues[i]]
    /\ failed' = k
    /\ raised' = TRUE
    /\ result' = <<>>
    /\ pc' = "done"
    /\ UNCHANGED <<user_skills, max_results, li, ti, ri, count, issues, server_vars, search_vars>>

\* issue_matcher.py:110-117 and 153-156, 68: search_issues or the iteration of
\* its result raises; the except clause that encloses both loops logs it, the
\* candidates collected so far are returned, the popular repositories of the
\* language are not listed
LanguageSearchRaises ==
    /\ pc = "language_search"
    /\ all_issues' = all_issues \o issues
    /\ issues' = <<>>
    /\ count' = 0
    /\ fetched' = NoRecord
    /\ lookup_failed' = TRUE
    /\ li' = li + 1
    /\ pc' = "languages"
    /\ UNCHANGED <<user_skills, max_results, ti, ri, unique_issues, result, raised, failed,
                   server_vars, issue_types>>

\* issue_matcher.py:132-137, 140 and 149-151: get_repo, get_issues or the
\* iteration of the listing raises; the next repository follows
RepoRaises ==
    /\ pc = "repos"
    /\ ri <= Len(ReposToSearch)
    /\ ri' = ri + 1
    /\ count' = 0
    /\ fetched' = NoRecord
    /\ lookup_failed' = TRUE
    /\ UNCHANGED <<user_skills, max_results, pc, li, ti, issues, all_issues, unique_issues,
                   result, raised, failed, server_vars, issue_types>>

\* issue_matcher.py:176-183 and 196-199, 75: the technology search raises;
\* the candidates collected so far are returned
TechnologySearchRaises ==
    /\ pc = "technology_search"
    /\ all_issues' = all_issues \o issues
    /\ issues' = <<>>
    /\ fetched' = NoRecord
    /\ lookup_failed' = TRUE
    /\ ti' = ti + 1
    /\ pc' = "technologies"
    /\ UNCHANGED <<user_skills, max_results, li, ri, count, unique_issues, result, raised,
                   failed, server_vars, issue_types>>

----------------------------------------------------------------------------
(* mcp_server.py: the routes *)

\* the most repositories a user of the model owns
MaxRepos == 2

\* the repositories the platform may list for a user
Repositories ==
    { [name |-> "flask-api", description |-> "A Python web app",
       languages |-> <<"Python", "HTML">>, topics |-> <<"Docker">>, updated_at |-> 3900],
      [name |-> "notes", description |-> "",
       languages |-> <<"Go">>, topics |-> <<"go", "cli">>, updated_at |-> 3000],
      [name |-> "blog", description |-> "Built with React and next.js",
       languages |-> <<"JavaScript", "CSS">>, topics |-> <<>>, updated_at |-> 3990],
      [name |-> "empty", description |-> "",
       languages |-> <<>>, topics |-> <<>>, updated_at |-> 100] }

\* the lists of at most n elements of a set
RECURSIVE ListsUpTo(_, _)
ListsUpTo(set, n) ==
    IF n = 0 THEN {<<>>}
    ELSE ListsUpTo(set, n - 1)
         \cup {Append(list, x) : list \in {l \in ListsUpTo(set, n - 1) : Len(l) = n - 1},
                                 x \in set}

\* the users the platform may show
Users ==
    {NoUser} \cup
    {[found |-> TRUE, repos |-> repos, bio |-> bio, created_at |-> created,
      updated_at |-> 4000, public_repos |-> Len(repos), followers |-> followers,
      complete |-> TRUE] :
        repos \in ListsUpTo(Repositories, MaxRepos),
        bio \in {"", "Rust and k8s fan", "I write Python", "HTML and CSS pages"},
        created \in {0, 3800},
        followers \in {3, 150}}

\* the users of the runs that go through a route
RouteUsers ==
    {NoUser} \cup
    {user \in Users :
        /\ user.found
        /\ user.bio = ""
        /\ user.created_at = 3800
        /\ user.followers = 3
        /\ \A i \in DOMAIN user.repos : user.repos[i].name \in {"flask-api", "empty"} /\ i = 1}

\* the records the platform yields in the runs that go through a route
RouteIssues ==
    {issue \in RawIssues : issue.id \in {3, 5}}
    \cup {[id |-> 6, title |-> "Typo in the python guide", body |-> "",
           labels |-> <<"good first issue", "Help Wanted">>, updated_at |-> Day(98),
           pull_request |-> FALSE]}

\* the requests a route may receive
Requests(route) ==
    IF route = "skills"
    THEN {[skills |-> skills, experience_level |-> level, max_results |-> n, username |-> ""] :
            skills \in {<<>>, <<"python">>}, level \in {"", "beginner"},
            n \in {<<>>, <<0>>, <<2>>}}
    ELSE IF route = "username"
    THEN {[skills |-> <<>>, experience_level |-> "", max_results |-> n, username |-> name] :
            n \in {<<>>, <<2>>}, name \in {"", "octocat"}}
    ELSE {[skills |-> <<>>, experience_level |-> "", max_results |-> <<>>,
           username |-> "octocat"]}

\* a route receives a request
InitServer ==
    /\ endpoint \in {"skills", "username", "analyze"}
    /\ request \in Requests(endpoint)
    /\ github_user \in RouteUsers
    /\ github_issues = RouteIssues
    /\ suspended = NoFrame
    /\ issue_types = <<>>
    /\ status = 0
    /\ user_skills = NoSkills
    /\ max_results = 0
    /\ pc = "handler"
    /\ MatcherEntry

\* a direct call of analyze_user_skills
InitAnalyzer ==
    /\ endpoint = "direct"
    /\ request = NoRequest
    /\ github_user \in Users
    /\ github_issues = {}
    /\ suspended = NoFrame
    /\ issue_types = <<>>
    /\ status = 0
    /\ user_skills = NoSkills
    /\ max_results = 0
    /\ pc = "analyze"
    /\ MatcherEntry

\* a repository without languages and topics, last updated on the given day
PlainRepo(day) ==
    [name |-> "notes", description |-> "", languages |-> <<>>, topics |-> <<>>,
     updated_at |-> day]

\* a list of stale repositories followed by repositories updated on a day
RepoList(stale, n, day) ==
    [i \in 1..(stale + n) |-> IF i <= stale THEN PlainRepo(100) ELSE PlainRepo(day)]

\* the repository lists of the users whose experience is estimated: 0 to 5
\* active repositories, active ones beyond the first 10, and the two sides
\* of the 365 days
ActivityLists ==
    {RepoList(0, n, 3990) : n \in {0, 1, 2, 4, 5}}
    \cup {RepoList(stale, 5, 3990) : stale \in {6, 9, 10}}
    \cup {RepoList(0, 2, day) : day \in {3634, 3635}}

\* the users whose experience is estimated: the values on both sides of
\* every threshold, and users whose attributes cannot be read
ExperienceUsers ==
    {[found |-> TRUE, repos |-> repos, bio |-> "", created_at |-> 4000 - age,
      updated_at |-> 4000, public_repos |-> public_repos, followers |-> followers,
      complete |-> complete] :
        repos \in ActivityLists,
        age \in {0, 365, 366, 730, 731, 1826, 1827},
        public_repos \in {0, 4, 5, 19, 20, 49, 50},
        followers \in {0, 19, 20, 99, 100},
        complete \in BOOLEAN}

\* a direct call of _estimate_experience_level
InitExperience ==
    /\ endpoint = "direct"
    /\ request = NoRequest
    /\ github_user \in ExperienceUsers
    /\ github_issues = {}
    /\ suspended = NoFrame
    /\ issue_types = <<>>
    /\ status = 0
    /\ user_skills = NoSkills
    /\ max_results = 0
    /\ pc = "estimate"
    /\ MatcherEntry

\* github_analyzer.py:124-177: _estimate_experience_level returns; the tier
\* is kept in the experience_level of user_skills
EstimateReturns ==
    /\ pc = "estimate"
    /\ user_skills' = [NoSkills EXCEPT !.experience_level =
                           EstimateExperienceLevel(github_user, ReposOf(github_user))]
    /\ pc' = "estimated"
    /\ UNCHANGED <<max_results, li, ti, ri, count, issues, all_issues, unique_issues, result,
                   raised, failed, server_vars, search_vars>>

\* the status a route answers when the exception it raised has passed its
\* except clauses
\* match_issues_by_skills has `except Exception` alone (mcp_server.py:69-71):
\* it catches the HTTPException of line 48 too and answers 500
SkillsRouteStatus(raised_status) == 500

\* match_issues_by_username and analyze_user_skills re-raise an HTTPException
\* (mcp_server.py:104-105, 128-129)
ReRaisedStatus(raised_status) == raised_status

\* request.max_results or 20, with the model's default (mcp_server.py:59, models.py:39)
SkillsMaxResults ==
    IF request.max_results = <<>> \/ request.max_results[1] = 0
    THEN 20
    ELSE request.max_results[1]

\* request.get("max_results", 20), mcp_server.py:93
UsernameMaxResults ==
    IF request.max_results = <<>> THEN 20 ELSE request.max_results[1]

\* mcp_server.py:46-48, 69-71: the skills list is empty
SkillsRouteRejects ==
    /\ pc = "handler"
    /\ endpoint = "skills"
    /\ request.skills = <<>>
    /\ status' = SkillsRouteStatus(400)
    /\ pc' = "responded"
    /\ UNCHANGED <<user_skills, max_results, li, ti, ri, count, issues, all_issues,
                   unique_issues, result, raised, failed, endpoint, request, github_user,
                   github_issues, suspended, search_vars>>

\* mcp_server.py:50-60: the profile is built, find_matching_issues is called
SkillsRouteCalls ==
    /\ pc = "handler"
    /\ endpoint = "skills"
    /\ request.skills # <<>>
    /\ user_skills' = [languages |-> request.skills,
                       technologies |-> <<>>,
                       experience_level |-> IF request.experience_level = ""
                                            THEN "intermediate"
                                            ELSE request.experience_level]
    /\ max_results' = SkillsMaxResults
    /\ issue_types' = RouteIssueTypes
    /\ pc' = "languages"
    /\ UNCHANGED <<li, ti, ri, count, issues, all_issues, unique_issues, result, raised,
                   failed, server_vars, fetched, lookup_failed>>

\* mcp_server.py:77-79, 104-105: no username
UsernameRouteRejects ==
    /\ pc = "handler"
    /\ endpoint = "username"
    /\ request.username = ""
    /\ status' = ReRaisedStatus(400)
    /\ pc' = "responded"
    /\ UNCHANGED <<user_skills, max_results, li, ti, ri, count, issues, all_issues,
                   unique_issues, result, raised, failed, endpoint, request, github_user,
                   github_issues, suspended, search_vars>>

\* mcp_server.py:82 and 114: the route calls analyze_user_skills
RouteCallsAnalyzer ==
    /\ pc = "handler"
    /\ \/ endpoint = "username" /\ request.username # ""
       \/ endpoint = "analyze"
    /\ pc' = "analyze"
    /\ UNCHANGED <<user_skills, max_results, li, ti, ri, count, issues, all_issues,
                   unique_issues, result, raised, failed, server_vars, search_vars>>

\* github_analyzer.py:29-78: analyze_user_skills returns
AnalyzerReturns ==
    /\ pc = "analyze"
    /\ user_skills' \in AnalyzeUserSkills(github_user)
    /\ pc' = "analyzed"
    /\ UNCHANGED <<max_results, li, ti, ri, count, issues, all_issues, unique_issues, result,
                   raised, failed, server_vars, search_vars>>

\* mcp_server.py:83-87 and 115-119: the analysis gave None
RouteAnalysisFailed ==
    /\ pc = "analyzed"
    /\ endpoint \in {"username", "analyze"}
    /\ user_skills = NoSkills
    /\ status' = ReRaisedStatus(404)
    /\ pc' = "responded"
    /\ UNCHANGED <<user_skills, max_results, li, ti, ri, count, issues, all_issues,
                   unique_issues, result, raised, failed, endpoint, request, github_user,
                   github_issues, suspended, search_vars>>

\* mcp_server.py:90-94: the username route calls find_matching_issues
UsernameRouteCalls ==
    /\ pc = "analyzed"
    /\ endpoint = "username"
    /\ user_skills # NoSkills
    /\ max_results' = UsernameMaxResults
    /\ issue_types' = RouteIssueTypes
    /\ pc' = "languages"
    /\ UNCHANGED <<user_skills, li, ti, ri, count, issues, all_issues, unique_issues, result,
                   raised, failed, server_vars, fetched, lookup_failed>>

\* mcp_server.py:121-126: the analysis route answers
AnalyzeRouteResponds ==
    /\ pc = "analyzed"
    /\ endpoint = "analyze"
    /\ user_skills # NoSkills
    /\ status' = 200
    /\ pc' = "responded"
    /\ UNCHANGED <<user_skills, max_results, li, ti, ri, count, issues, all_issues,
                   unique_issues, result, raised, failed, endpoint, request, github_user,
                   github_issues, suspended, search_vars>>

\* the match routes with 404 for an empty list of issues
MatchRouteRespondsNotFound ==
    /\ pc = "done"
    /\ endpoint \in {"skills", "username"}
    /\ status' = IF result = <<>> THEN 404 ELSE 200
    /\ pc' = "responded"
    /\ UNCHANGED <<user_skills, max_results, li, ti, ri, count, issues, all_issues,
                   unique_issues, result, raised, failed, endpoint, request, github_user,
                   github_issues, suspended, search_vars>>

\* mcp_server.py:62-67 and 96-102: find_matching_issues has returned
MatchRouteResponds ==
    /\ pc = "done"
    /\ endpoint \in {"skills", "username"}
    /\ status' = 200
    /\ pc' = "responded"
    /\ UNCHANGED <<user_skills, max_results, li, ti, ri, count, issues, all_issues,
                   unique_issues, result, raised, failed, endpoint, request, github_user,
                   github_issues, suspended, search_vars>>

----------------------------------------------------------------------------
(* Direct calls of _convert_to_github_issue and of _score_issues *)

\* the most labels an issue of the model carries
MaxLabels == 2

\* the labels of the issues whose difficulty is determined
DifficultyLabels ==
    {"Good First Issue", "easy", "Medium", "HARD", "help wanted", "Bug", "feature",
     "docs", "bug report"}

\* the bodies of the issues whose difficulty is determined
DifficultyBodies ==
    {"", "A Simple typo", "needs a refactor", "easy to see, complex to fix", "Plain text"}

\* the records whose conversion is followed
DifficultyIssues ==
    {[id |-> 1, title |-> "t", body |-> body, labels |-> labels, updated_at |-> Day(98),
      pull_request |-> FALSE] :
        labels \in ListsUpTo(DifficultyLabels, MaxLabels), body \in DifficultyBodies}

\* the search loop is about to convert one record
InitDifficulty ==
    /\ user_skills = [languages |-> <<"python">>, technologies |-> <<>>,
                      experience_level |-> "beginner"]
    /\ max_results = 1
    /\ pc = "language_search"
    /\ MatcherEntry
    /\ endpoint = "direct"
    /\ request = NoRequest
    /\ status = 0
    /\ github_user = NoUser
    /\ github_issues \in {{issue} : issue \in DifficultyIssues}
    /\ suspended = NoFrame
    /\ issue_types = DefaultIssueTypes

\* the open issues of the popular repositories
RepoIssues ==
    { [id |-> 7, title |-> "Crash on start", body |-> "", labels |-> <<"bug">>,
       updated_at |-> Day(98), pull_request |-> FALSE],
      [id |-> 8, title |-> "Translate the guide", body |-> "", labels |-> <<"docs">>,
       updated_at |-> Day(98), pull_request |-> FALSE],
      [id |-> 9, title |-> "Fix crash", body |-> "", labels |-> <<"bug">>,
       updated_at |-> Day(98), pull_request |-> TRUE] }

\* the issue types a caller of the language search asks for
IssueTypeLists == {DefaultIssueTypes, <<"bug">>, <<"bug", "enhancement">>, <<"enhancement">>}

\* _search_issues_by_language("python", issue_types, 0) is called
InitRepos ==
    /\ user_skills = [languages |-> <<"python">>, technologies |-> <<>>,
                      experience_level |-> "beginner"]
    /\ max_results = 0
    /\ issue_types \in IssueTypeLists
    /\ pc = "language_search"
    /\ MatcherEntry
    /\ endpoint = "search"
    /\ request = NoRequest
    /\ status = 0
    /\ github_user = NoUser
    /\ github_issues = RepoIssues
    /\ suspended = NoFrame

\* the records the platform yields in the calls whose candidates' difficulty
\* is followed to the score: at most one label, every body
CandidateRecords == {issue \in DifficultyIssues : Len(issue.labels) <= 1}

\* the profiles of these calls: one language, one technology, every level
CandidateProfiles ==
    {[languages |-> <<"python">>, technologies |-> <<"django">>,
      experience_level |-> experience_level] :
        experience_level \in {"beginner", "intermediate", "advanced", "expert"}}

\* find_matching_issues(user_skills, ["enhancement"], 2) is called, the
\* platform knowing one record
InitCandidates ==
    /\ user_skills \in CandidateProfiles
    /\ max_results = 2
    /\ pc = "languages"
    /\ MatcherEntry
    /\ endpoint = "direct"
    /\ request = NoRequest
    /\ status = 0
    /\ github_user = NoUser
    /\ github_issues \in {{issue} : issue \in CandidateRecords}
    /\ suspended = NoFrame
    /\ issue_types = MatcherIssueTypes

\* whether the call that runs is at an await (issue_matcher.py:65, 72, 122,
\* 144, 188), where the event loop may run another task, or has returned
AtAwait ==
    pc \in {"languages", "language_search", "repos", "technologies", "technology_search",
            "done"}

\* the event loop with `issues` an attribute of the matcher: the list stays
\* as it is when another call goes on
SwitchSharedIssues ==
    /\ suspended # NoFrame
    /\ suspended.pc # "done"
    /\ AtAwait
    /\ suspended' = Frame
    /\ user_skills' = suspended.user_skills
    /\ max_results' = suspended.max_results
    /\ issue_types' = suspended.issue_types
    /\ pc' = suspended.pc
    /\ li' = suspended.li
    /\ ti' = suspended.ti
    /\ ri' = suspended.ri
    /\ count' = suspended.count
    /\ issues' = issues
    /\ all_issues' = suspended.all_issues
    /\ unique_issues' = suspended.unique_issues
    /\ result' = suspended.result
    /\ raised' = suspended.raised
    /\ failed' = suspended.failed
    /\ fetched' = suspended.fetched
    /\ lookup_failed' = suspended.lookup_failed
    /\ UNCHANGED <<endpoint, request, status, github_user, github_issues>>

\* the event loop suspends the call that runs at its await and goes on with
\* the call that waits: each coroutine keeps its own arguments and locals
\* (issue_matcher.py:40-45, 60, 96, 116, 139, 165, 182); the matcher itself
\* holds nothing a call writes (issue_matcher.py:21-38)
Switch ==
    /\ suspended # NoFrame
    /\ suspended.pc # "done"
    /\ AtAwait
    /\ suspended' = Frame
    /\ user_skills' = suspended.user_skills
    /\ max_results' = suspended.max_results
    /\ issue_types' = suspended.issue_types
    /\ pc' = suspended.pc
    /\ li' = suspended.li
    /\ ti' = suspended.ti
    /\ ri' = suspended.ri
    /\ count' = suspended.count
    /\ issues' = suspended.issues
    /\ all_issues' = suspended.all_issues
    /\ unique_issues' = suspended.unique_issues
    /\ result' = suspended.result
    /\ raised' = suspended.raised
    /\ failed' = suspended.failed
    /\ fetched' = suspended.fetched
    /\ lookup_failed' = suspended.lookup_failed
    /\ UNCHANGED <<endpoint, request, status, github_user, github_issues>>

\* the records the platform yields to two calls that are served together
ConcurrentIssues ==
    {issue \in RawIssues : issue.id = 3 \/ (issue.id = 2 /\ Len(issue.labels) = 1)}

\* the profile of the first of two calls served together
FirstProfile ==
    [languages |-> <<"python">>, technologies |-> <<>>, experience_level |-> "beginner"]

\* the profile of the second: no skill of the first
SecondProfile ==
    [languages |-> <<>>, technologies |-> <<"django", "api">>,
     experience_level |-> "intermediate"]

\* two calls of find_matching_issues on one IssueMatcher (mcp_server.py:29):
\* one runs, the other has not begun
InitConcurrent ==
    /\ user_skills = FirstProfile
    /\ max_results = 1
    /\ pc = "languages"
    /\ MatcherEntry
    /\ endpoint = "direct"
    /\ request = NoRequest
    /\ status = 0
    /\ github_user = NoUser
    /\ github_issues = ConcurrentIssues
    /\ issue_types = MatcherIssueTypes
    /\ suspended = EntryFrame(SecondProfile, 2, MatcherIssueTypes)

\* the labels of the issues that are scored
ScoreLabels == {"good first issue", "bug: Help Wanted", "feature"}

\* the titles of the issues that are scored
ScoreTitles == {"Fix python bug", "Crash in Go and Python", "Update docs"}

\* the bodies of the issues that are scored
ScoreBodies == {"", "uses django"}

\* a timestamp datetime.fromisoformat rejects
Malformed == [valid |-> FALSE, day |-> 0]

\* the candidates that are scored
ScoreCandidates ==
    {GitHubIssue([id |-> 1, title |-> title, body |-> body, labels |-> labels,
                  updated_at |-> updated_at, pull_request |-> FALSE], "python") :
        title \in ScoreTitles, body \in ScoreBodies,
        labels \in ListsUpTo(ScoreLabels, MaxLabels),
        updated_at \in {Day(98), Day(93), Day(80), Malformed}}

\* candidates of every difficulty a caller of _score_issues may pass
DifficultyCandidates ==
    {[GitHubIssue([id |-> 1, title |-> "Update docs", body |-> "", labels |-> <<>>,
                   updated_at |-> Day(80), pull_request |-> FALSE], "python")
         EXCEPT !.difficulty = difficulty] :
        difficulty \in {"beginner", "intermediate", "advanced", "expert"}}

\* the candidates with a malformed timestamp that are scored in a list of two
MalformedCandidates ==
    {issue \in ScoreCandidates :
        /\ issue.updated_at = Malformed
        /\ issue.title = "Fix python bug"
        /\ issue.body = ""
        /\ Len(issue.labels) <= 1}

\* the issue scored in the same pass
Companion ==
    GitHubIssue([id |-> 2, title |-> "Crash in Go and Python", body |-> "uses django",
                 labels |-> <<"feature">>, updated_at |-> Day(98), pull_request |-> FALSE],
                "python")

\* the lists _score_issues is called on
ScoreLists ==
    {<<issue>> : issue \in ScoreCandidates \cup DifficultyCandidates}
    \cup {<<issue, Companion>> : issue \in MalformedCandidates}
    \cup {<<Companion, issue>> : issue \in MalformedCandidates}

\* the profiles the candidates are scored against
ScoreProfiles ==
    {[languages |-> languages, technologies |-> technologies, experience_level |-> level] :
        languages \in {<<>>, <<"python">>, <<"Python", "go">>},
        technologies \in {<<>>, <<"django">>},
        level \in {"beginner", "intermediate", "advanced", "expert"}}

\* _score_issues is called on a list of candidates
InitScore ==
    /\ user_skills \in ScoreProfiles
    /\ max_results = 1
    /\ pc = "score"
    /\ li = 1
    /\ ti = 1
    /\ ri = 1
    /\ count = 0
    /\ issues = <<>>
    /\ unique_issues \in ScoreLists
    /\ all_issues = unique_issues
    /\ result = <<>>
    /\ raised = FALSE
    /\ failed = 0
    /\ endpoint = "direct"
    /\ request = NoRequest
    /\ status = 0
    /\ github_user = NoUser
    /\ github_issues = {}
    /\ suspended = NoFrame
    /\ issue_types = <<>>
    /\ fetched = NoRecord
    /\ lookup_failed = FALSE

----------------------------------------------------------------------------
(* Specifications *)

Init == InitMatcher

\* find_matching_issues
Next ==
    \/ BeginLanguageSearch
    \/ \E issue \in github_issues : LanguageSearchYield(issue)
    \/ LanguageSearchEnd
    \/ \E issue \in github_issues : RepoYield(issue)
    \/ RepoEnd
    \/ ReturnLanguage
    \/ EndLanguageLoop
    \/ BeginTechnologySearch
    \/ \E issue \in github_issues : TechnologySearchYield(issue)
    \/ ReturnTechnology
    \/ RemoveDuplicatesStep
    \/ ScoreStep
    \/ SortAndReturn

\* a direct call of find_matching_issues
Spec == Init /\ [][Next]_vars

\* a direct call of find_matching_issues on one record of every difficulty
SpecCandidates == InitCandidates /\ [][Next]_vars

\* two calls of find_matching_issues, one going on where the other awaits
NextConcurrent == Next \/ Switch

\* two calls of find_matching_issues served by one event loop
SpecConcurrent == InitConcurrent /\ [][NextConcurrent]_vars

\* find_matching_issues with an exception in the scoring loop
NextFault == Next \/ \E k \in 1..MaxIssues : ScoreRaises(k)

\* a direct call of find_matching_issues in which the scoring of an issue may raise
SpecFault == Init /\ [][NextFault]_vars

\* find_matching_issues with lookups that may raise
NextLookupFault == Next \/ LanguageSearchRaises \/ RepoRaises \/ TechnologySearchRaises

\* a direct call of find_matching_issues in which the platform's searches
\* and listings may raise
SpecLookupFault == Init /\ [][NextLookupFault]_vars

\* the loop over the popular repositories
NextRepos ==
    \/ LanguageSearchEnd
    \/ \E issue \in github_issues : RepoYield(issue)
    \/ RepoEnd
    \/ ReturnLanguage

\* a direct call of _search_issues_by_language with limit 0
SpecRepos == InitRepos /\ [][NextRepos]_vars

\* the routes, with the analyzer and the matcher they call
NextServer ==
    \/ SkillsRouteRejects
    \/ SkillsRouteCalls
    \/ UsernameRouteRejects
    \/ RouteCallsAnalyzer
    \/ AnalyzerReturns
    \/ RouteAnalysisFailed
    \/ UsernameRouteCalls
    \/ AnalyzeRouteResponds
    \/ MatchRouteResponds
    \/ Next

\* one request to one of the routes
SpecServer == InitServer /\ [][NextServer]_vars

\* a direct call of analyze_user_skills
SpecAnalyzer == InitAnalyzer /\ [][AnalyzerReturns]_vars

\* a direct call of _estimate_experience_level
SpecExperience == InitExperience /\ [][EstimateReturns]_vars

\* the conversion of one record in the search loop
SpecDifficulty ==
    InitDifficulty /\ [][\E issue \in github_issues : LanguageSearchYield(issue)]_vars

\* a direct call of _score_issues
SpecScore == InitScore /\ [][ScoreStep]_vars

----------------------------------------------------------------------------
(* Properties of find_matching_issues *)

\* the smaller of two numbers
Min(a, b) == IF a < b THEN a ELSE b

\* the scores of a list of issues, in order
Scores(list) == [i \in DOMAIN list |-> list[i].relevance_score]

\* the positions of all_issues that hold the first record of their id
FirstPositions ==
    {i \in DOMAIN all_issues : \A j \in 1..(i - 1) : all_issues[j].id # all_issues[i].id}

\* C2: _remove_duplicates returns exactly one entry per distinct id of its
\* input, that entry is the first record of the id in input order, and the
\* kept entries stand in the order they have in the input.
C2_FirstOccurrenceKept ==
    pc = "score" =>
        /\ Len(unique_issues) = Cardinality(FirstPositions)
        /\ \A id \in Range(Ids(all_issues)) :
               Cardinality({k \in DOMAIN unique_issues : unique_issues[k].id = id}) = 1
        /\ \A i \in FirstPositions :
               unique_issues[Cardinality({j \in FirstPositions : j <= i})] = all_issues[i]

\* C2 witness: a list with two different ids and a later record of an id
\* that differs from the first one has been deduplicated
C2_Witness ==
    /\ pc = "score"
    /\ Len(unique_issues) >= 2
    /\ \E i, j \in DOMAIN all_issues :
           /\ i < j
           /\ all_issues[i].id = all_issues[j].id
           /\ all_issues[i] # all_issues[j]
           /\ i \in FirstPositions

\* the deduplicated candidates with their scores, in deduplicated order, as
\* all_issues holds them once the request is done
Deduplicated == [k \in 1..Cardinality(FirstPositions) |->
                    all_issues[CHOOSE i \in FirstPositions :
                                  Cardinality({j \in FirstPositions : j <= i}) = k]]

\* the place of the i-th deduplicated candidate in the stable descending order
StableRank(list, i) ==
    1 + Cardinality({j \in DOMAIN list :
            \/ list[j].relevance_score > list[i].relevance_score
            \/ list[j].relevance_score = list[i].relevance_score /\ j < i})

\* C1: the list find_matching_issues returns is the first max_results
\* elements of the stable descending sort by relevance_score of the scored,
\* deduplicated candidates: non-increasing scores, equal scores in their
\* deduplicated order, at most max_results entries.
C1_StableTopResults ==
    (pc = "done" /\ ~raised) =>
        LET D == Deduplicated
        IN /\ \A i \in DOMAIN D : D[i].relevance_score = Score(D[i], user_skills)
           /\ Len(result) = Min(max_results, Len(D))
           /\ \A i \in DOMAIN D :
                  StableRank(D, i) <= max_results => result[StableRank(D, i)] = D[i]
           /\ \A k \in 1..(Len(result) - 1) :
                  result[k].relevance_score >= result[k + 1].relevance_score

\* C1 witness: the sort moved a candidate forward, and the cut at
\* max_results fell between two candidates of equal score, the earlier kept
C1_Witness ==
    /\ pc = "done"
    /\ ~raised
    /\ Len(result) = max_results
    /\ result # Take(Deduplicated, max_results)
    /\ \E i, j \in DOMAIN Deduplicated :
           /\ i < j
           /\ Deduplicated[i].relevance_score = Deduplicated[j].relevance_score
           /\ Deduplicated[i] \in Range(result)
           /\ Deduplicated[j].id \notin Range(Ids(result))

\* the orders of n things
Orders(n) == {f \in [1..n -> 1..n] : \A a, b \in 1..n : f[a] = f[b] => a = b}

\* lines 78-83 of find_matching_issues on a list of retrieved candidates
Ranked(list) ==
    Take(SortByScore(ScoreIssues(RemoveDuplicates(list), user_skills)), max_results)

\* the same on candidates that carry their scores already: _score_issues
\* gives each issue the score of its own fields, wherever it stands
RankedScored(list) == Take(SortByScore(RemoveDuplicates(list)), max_results)

\* the list in another order
Reordered(list, f) == [k \in DOMAIN list |-> list[f[k]]]

\* the fields of a candidate the score is computed from
Scored(issue) == <<issue.title, issue.body, issue.labels, issue.difficulty, issue.updated_at>>

\* records of one id agree in every field the score is computed from
SameIdSameIssue ==
    \A i, j \in DOMAIN all_issues :
        all_issues[i].id = all_issues[j].id => Scored(all_issues[i]) = Scored(all_issues[j])

\* no two of the candidates, with different ids, have the same score
NoTies(list) ==
    \A i, j \in DOMAIN list :
        list[i].id # list[j].id => list[i].relevance_score # list[j].relevance_score

\* C3 as stated: whatever the order in which the retrieved candidates were
\* appended, deduplicate + score + sort + truncate returns the same ids.
C3_OrderIndependentIds ==
    (pc = "done" /\ ~raised) =>
        /\ Ids(Ranked(all_issues)) = Ids(result)
        /\ LET scored == ScoreIssues(all_issues, user_skills)
           IN \A f \in Orders(Len(all_issues)) :
                  Ids(RankedScored(Reordered(scored, f))) = Ids(result)

\* C3 amended: when the records of one id are the same issue, every order of
\* the retrieved candidates gives the same sequence of scores, and the same
\* sequence of ids when no two different candidates tie.
C3_OrderIndependentScores ==
    (pc = "done" /\ ~raised /\ SameIdSameIssue) =>
        /\ Ranked(all_issues) = result
        /\ LET scored == ScoreIssues(all_issues, user_skills)
           IN \A f \in Orders(Len(all_issues)) :
                  LET other == RankedScored(Reordered(scored, f))
                  IN /\ Scores(other) = Scores(result)
                     /\ NoTies(scored) => Ids(other) = Ids(result)

\* C3 witness: three candidates of two ids and two different scores were
\* ranked, so that another order changes the list that is deduplicated
C3_Witness ==
    /\ pc = "done"
    /\ ~raised
    /\ SameIdSameIssue
    /\ NoTies(ScoreIssues(all_issues, user_skills))
    /\ Len(all_issues) = 3
    /\ Len(result) = 2
    /\ result # Take(Deduplicated, max_results)

----------------------------------------------------------------------------
(* Properties of the scoring pass, the routes, the analyzer, the difficulty *)

\* C4: an exception raised while scoring one issue does not stop the scoring
\* of the others: every other issue of the list has its relevance score and,
\* max_results allowing, is in the returned list.
C4_ScoringContinues ==
    (pc = "done" /\ failed # 0) =>
        \A i \in DOMAIN unique_issues \ {failed} :
            /\ unique_issues[i].relevance_score = Score(unique_issues[i], user_skills)
            /\ Len(unique_issues) - 1 <= max_results
                   => unique_issues[i].id \in Range(Ids(result))

\* C5: POST /match-issues-by-skills with an empty skills list is answered
\* with status 400.
C5_EmptySkills400 ==
    (pc = "responded" /\ endpoint = "skills" /\ request.skills = <<>>) => status = 400

\* the user has an account and no repository
NoRepositories == github_user.found /\ github_user.repos = <<>>

\* the request reaches analyze_user_skills
ReachesAnalyzer ==
    \/ endpoint = "analyze"
    \/ endpoint = "username" /\ request.username # ""

\* C6: for a user with zero repositories analyze_user_skills returns None and
\* both POST /match-issues-by-username and GET /analyze-user/{username}
\* answer 404, never 500 and never 200.
C6_NoRepositories404 ==
    (NoRepositories /\ ReachesAnalyzer) =>
        /\ pc = "analyzed" => user_skills = NoSkills
        /\ pc = "responded" => status = 404

\* C6 witness: the username route has answered 404 for a user without repositories
C6_Witness ==
    /\ NoRepositories
    /\ endpoint = "username"
    /\ pc = "responded"
    /\ status = 404
    /\ user_skills = NoSkills

\* the part of a scored issue's score that its labels gave
LabelPart(issue) ==
    issue.relevance_score
    - SkillScore(Content(issue), user_skills)
    - DifficultyScore(issue.difficulty, user_skills.experience_level)
    - RecencyScore(issue.updated_at)

\* the categories of bonus a label matches
GoodFirstIssue(label) ==
    /\ Contains("good first issue", Lower(label))
    /\ user_skills.experience_level \in {"beginner", "intermediate"}

HelpWanted(label) == Contains("help wanted", Lower(label))

Bug(label) == Contains("bug", Lower(label))

Enhancement(label) ==
    Contains("enhancement", Lower(label)) \/ Contains("feature", Lower(label))

\* C7 as stated: every category a label matches adds its bonus, so a label
\* that matches several categories adds the sum of their bonuses.
C7_EveryCategoryAdds ==
    pc = "sort" =>
        \A i \in DOMAIN unique_issues :
            LET labels == unique_issues[i].labels
            IN LabelPart(unique_issues[i]) =
                   Sum([k \in DOMAIN labels |->
                           (IF GoodFirstIssue(labels[k]) THEN 6 ELSE 0)
                           + (IF HelpWanted(labels[k]) THEN 4 ELSE 0)
                           + (IF Bug(labels[k]) THEN 2 ELSE 0)
                           + (IF Enhancement(labels[k]) THEN 3 ELSE 0)])

\* C7 amended: each label adds the bonus of the first category it matches,
\* in the order good first issue (with experience beginner or intermediate),
\* help wanted, bug, enhancement or feature; the bonuses of the labels add up.
C7_FirstCategoryAdds ==
    pc = "sort" =>
        \A i \in DOMAIN unique_issues :
            LET labels == unique_issues[i].labels
            IN LabelPart(unique_issues[i]) =
                   Sum([k \in DOMAIN labels |->
                           CASE GoodFirstIssue(labels[k]) -> 6
                             [] ~GoodFirstIssue(labels[k]) /\ HelpWanted(labels[k]) -> 4
                             [] ~GoodFirstIssue(labels[k]) /\ ~HelpWanted(labels[k])
                                /\ Bug(labels[k]) -> 2
                             [] ~GoodFirstIssue(labels[k]) /\ ~HelpWanted(labels[k])
                                /\ ~Bug(labels[k]) /\ Enhancement(labels[k]) -> 3
                             [] OTHER -> 0])

\* C7 witness: an issue with a label of two categories and a second label
\* has been scored
C7_Witness ==
    /\ pc = "sort"
    /\ \E i \in DOMAIN unique_issues :
           LET labels == unique_issues[i].labels
           IN /\ Len(labels) = 2
              /\ HelpWanted(labels[1]) /\ Bug(labels[1])
              /\ GoodFirstIssue(labels[2])
              /\ LabelPart(unique_issues[i]) = 10

\* C8: in every profile analyze_user_skills returns, no tag is both in
\* languages and in technologies.
C8_LanguagesTechnologiesDisjoint ==
    (pc = "analyzed" /\ user_skills # NoSkills) =>
        Range(user_skills.languages) \cap Range(user_skills.technologies) = {}

\* the lower-cased labels of an issue
LowerLabels(issue) == {Lower(issue.labels[k]) : k \in DOMAIN issue.labels}

\* the rules of the cascade, by their labels and keywords
BeginnerLabel(issue) ==
    LowerLabels(issue) \cap {"good first issue", "beginner", "easy", "starter"} # {}

IntermediateLabel(issue) == LowerLabels(issue) \cap {"intermediate", "medium"} # {}

ExpertLabel(issue) == LowerLabels(issue) \cap {"hard", "expert", "complex", "difficult"} # {}

KindLabel(issue) ==
    LowerLabels(issue) \cap {"help wanted", "bug", "enhancement", "feature"} # {}

BeginnerBody(issue) ==
    \E word \in {"simple", "easy", "basic", "straightforward", "minor"} :
        Contains(word, Lower(issue.body))

ExpertBody(issue) ==
    \E word \in {"complex", "advanced", "architecture", "performance", "optimization",
                 "refactor"} :
        Contains(word, Lower(issue.body))

\* C9: the difficulty of a converted issue is that of the first rule that
\* matches: beginner labels, intermediate labels, expert labels, help wanted /
\* bug / enhancement / feature (intermediate), then the body's beginner
\* keywords, then its expert keywords, else intermediate; labels are compared
\* without regard to case, and an issue labeled exactly ["good first issue"]
\* is beginner whatever its body.
C9_DifficultyCascade ==
    \A i \in DOMAIN issues :
        LET issue == issues[i]
            rule == CASE BeginnerLabel(issue) -> "beginner"
                      [] ~BeginnerLabel(issue) /\ IntermediateLabel(issue) -> "intermediate"
                      [] ~BeginnerLabel(issue) /\ ~IntermediateLabel(issue)
                         /\ ExpertLabel(issue) -> "expert"
                      [] ~BeginnerLabel(issue) /\ ~IntermediateLabel(issue)
                         /\ ~ExpertLabel(issue) /\ KindLabel(issue) -> "intermediate"
                      [] OTHER -> IF BeginnerBody(issue) THEN "beginner"
                                  ELSE IF ExpertBody(issue) THEN "expert"
                                  ELSE "intermediate"
        IN /\ issue.difficulty = rule
           /\ LowerLabels(issue) = {"good first issue"} => issue.difficulty = "beginner"

\* C9 witness: an issue with an expert label before a beginner label and a
\* body of expert keywords has been converted, and is beginner
C9_Witness ==
    /\ Len(issues) = 1
    /\ Len(issues[1].labels) = 2
    /\ Lower(issues[1].labels[1]) = "hard"
    /\ Lower(issues[1].labels[2]) = "good first issue"
    /\ issues[1].labels[2] # "good first issue"
    /\ ExpertBody(issues[1])
    /\ issues[1].difficulty = "beginner"

\* the candidate with another title and body, its other fields as they are
WithContent(issue, title, body) == [issue EXCEPT !.title = title, !.body = body]

\* the profile languages that occur in the content of a candidate
LanguagesIn(issue) ==
    {k \in DOMAIN user_skills.languages : SkillOccurs(user_skills.languages[k], Content(issue))}

\* the profile technologies that occur in the content of a candidate
TechnologiesIn(issue) ==
    {k \in DOMAIN user_skills.technologies :
        SkillOccurs(user_skills.technologies[k], Content(issue))}

\* other has every profile skill that occurs in issue, and more languages
MoreLanguages(issue, other) ==
    /\ LanguagesIn(issue) \subseteq LanguagesIn(other)
    /\ TechnologiesIn(issue) \subseteq TechnologiesIn(other)
    /\ LanguagesIn(other) # LanguagesIn(issue)

\* C10: with the profile, the labels, the difficulty and updated_at fixed, a
\* title and body in which one more profile language occurs, and every
\* profile skill that occurred before still does, never has a lower score.
C10_MoreLanguagesNeverLower ==
    pc = "sort" =>
        \A i \in DOMAIN unique_issues :
            \A title \in ScoreTitles, body \in ScoreBodies :
                LET other == WithContent(unique_issues[i], title, body)
                IN MoreLanguages(unique_issues[i], other)
                       => Score(other, user_skills) >= unique_issues[i].relevance_score

\* C10 witness: a scored issue in which a profile language and a technology
\* occur, and a content with one more language whose score is 2.0 higher
C10_Witness ==
    /\ pc = "sort"
    /\ \E i \in DOMAIN unique_issues :
           /\ LanguagesIn(unique_issues[i]) # {}
           /\ TechnologiesIn(unique_issues[i]) # {}
           /\ \E title \in ScoreTitles, body \in ScoreBodies :
                  LET other == WithContent(unique_issues[i], title, body)
                  IN /\ MoreLanguages(unique_issues[i], other)
                     /\ Cardinality(LanguagesIn(other))
                            = Cardinality(LanguagesIn(unique_issues[i])) + 1
                     /\ Score(other, user_skills) = unique_issues[i].relevance_score + 4

\* whether an issue was updated at most 7 days ago
UpdatedThisWeek(issue) ==
    /\ issue.updated_at.valid
    /\ NowDay - issue.updated_at.day \in 0..7

\* the case of C11: a beginner's single language occurs in the title of an
\* issue labeled exactly ["good first issue"] that was updated this week
BeginnerExample(issue) ==
    /\ user_skills.experience_level = "beginner"
    /\ Len(user_skills.languages) = 1
    /\ Contains(Lower(user_skills.languages[1]), Lower(issue.title))
    /\ issue.labels = <<"good first issue">>
    /\ UpdatedThisWeek(issue)

\* C11: for a beginner whose single language occurs in the title, an issue
\* labeled exactly ["good first issue"] and updated at most 7 days ago has
\* difficulty beginner and a relevance score of at least 8.0.
C11_BeginnerExampleScore ==
    pc = "sort" =>
        \A i \in DOMAIN unique_issues :
            BeginnerExample(unique_issues[i]) =>
                /\ unique_issues[i].difficulty = "beginner"
                /\ unique_issues[i].relevance_score >= 16

\* C11 witness: the issue of the example, updated exactly 7 days ago, has
\* been scored 8.0 for a profile without technologies
C11_Witness ==
    /\ pc = "sort"
    /\ user_skills.technologies = <<>>
    /\ BeginnerExample(unique_issues[1])
    /\ unique_issues[1].updated_at.day = NowDay - 7
    /\ unique_issues[1].relevance_score = 16

\* the request has passed the route's validation and the analysis, so that
\* the route has called find_matching_issues
RouteCalledMatcher ==
    \/ endpoint = "skills" /\ request.skills # <<>>
    \/ endpoint = "username" /\ request.username # "" /\ user_skills # NoSkills

\* C12: when retrieval yields no candidate (a profile without languages and
\* technologies included), find_matching_issues returns an empty list without
\* raising, and the route answers 200 with zero issues.
C12_NoCandidatesEmptyResult ==
    (all_issues = <<>> /\ RouteCalledMatcher) =>
        /\ pc = "done" => result = <<>> /\ ~raised
        /\ pc = "responded" => status = 200 /\ result = <<>> /\ ~raised

\* C12 witness: the username route has answered 200 with no issue for a
\* profile that has neither languages nor technologies
C12_Witness ==
    /\ pc = "responded"
    /\ endpoint = "username"
    /\ user_skills # NoSkills
    /\ user_skills.languages = <<>>
    /\ user_skills.technologies = <<>>
    /\ all_issues = <<>>
    /\ result = <<>>
    /\ status = 200

\* the tags the analyzer hands to the classifier: every topic to
\* is_technology (github_analyzer.py:115), every word found in the bio to
\* is_programming_language (github_analyzer.py:192)
ClassifiedTags ==
    UNION {Range(github_user.repos[i].topics) : i \in DOMAIN github_user.repos}
    \cup ExtractFromText(github_user.bio)

\* C13: no tag is both a programming language and a technology for the
\* classifier: is_programming_language(tag) and is_technology(tag) are never
\* both true.
C13_ClassifierExclusive ==
    pc = "analyzed" =>
        \A tag \in ClassifiedTags : ~(IsProgrammingLanguage(tag) /\ IsTechnology(tag))

\* the ids of the records that bear the pull-request marker
PullRequestIds == {record.id : record \in {r \in github_issues : r.pull_request}}

\* no pull request is in any list of the matcher
NoPullRequestListed ==
    \A list \in {issues, all_issues, unique_issues, result} :
        Range(Ids(list)) \cap PullRequestIds = {}

\* in the two search loops count is the number of candidates appended
CountsCandidates ==
    pc \in {"language_search", "technology_search"} => count = Len(issues)

\* a step of a search loop that fetches a pull request
PullRequestFetched == fetched'.pull_request /\ fetched' # fetched

\* C14: a record bearing the pull-request marker never becomes a candidate:
\* no list of the language search, the technology search or
\* find_matching_issues holds one, and fetching one leaves the list and the
\* count of the running loop as they are.
C14_PullRequestsSkipped ==
    /\ [](NoPullRequestListed /\ CountsCandidates)
    /\ [][PullRequestFetched => issues' = issues /\ count' = count]_vars

\* C14 witness: the language search has fetched a pull request after a
\* candidate; the list and the count are those of the candidate alone
C14_Witness ==
    /\ pc = "language_search"
    /\ fetched.pull_request
    /\ Len(issues) = 1
    /\ count = 1
    /\ count < LanguageLimit

\* the candidates collected so far by the searches
Collected == all_issues \o issues

\* whether list a begins list b
IsPrefix(a, b) == Len(a) <= Len(b) /\ SubSeq(b, 1, Len(a)) = a

\* the searches are running
Searching ==
    pc \in {"languages", "language_search", "repos", "technologies", "technology_search"}

\* every language and every technology of the profile has had its search
AllSkillsVisited == li = Len(TopLanguages) + 1 /\ ti = Len(TopTechnologies) + 1

\* C15: a failing lookup for one skill or one curated repository does not
\* abort the batch: the candidates collected are kept, the general search of
\* a language is followed by its curated repositories whether it ended or
\* raised, every skill has its search, and find_matching_issues returns the
\* ranked results of what was collected.
C15_FailingLookupSkipped ==
    /\ [](pc = "done" =>
              ~raised /\ AllSkillsVisited /\ result = Ranked(all_issues))
    /\ [][Searching => IsPrefix(Collected, Collected')]_vars
    /\ [][(pc = "language_search" /\ pc' # "language_search") => pc' = "repos"]_vars

\* whether a candidate carries one of the issue types asked for
HasRequestedType(issue) ==
    \E k \in DOMAIN issue_types :
        \E n \in DOMAIN issue.labels : Lower(issue.labels[n]) = Lower(issue_types[k])

\* at most 5 issues are taken from the repository that is listed, and from
\* each of those before it
AtMostFivePerRepository ==
    pc = "repos" => count <= 5 /\ Len(issues) <= 5 * (ri - 1) + count

\* C16: from each popular repository at most 5 open issues are taken, and
\* every issue taken carries a requested issue-type label, whatever the list
\* of issue types.
C16_ListedIssuesMatch ==
    endpoint = "search" =>
        /\ AtMostFivePerRepository
        /\ \A i \in DOMAIN Collected : HasRequestedType(Collected[i])

\* the part of a scored issue's score that its difficulty gave
DifficultyPart(issue) ==
    issue.relevance_score
    - SkillScore(Content(issue), user_skills)
    - LabelScore(issue.labels, user_skills.experience_level)
    - RecencyScore(issue.updated_at)

\* the pairs (difficulty, experience level) of the one-step rule
OneStepUp ==
    {<<"beginner", "intermediate">>, <<"beginner", "advanced">>,
     <<"intermediate", "advanced">>, <<"intermediate", "expert">>}

\* C17: the difficulty bonus is 2.0 when difficulty and experience level are
\* equal, 1.0 for difficulty beginner with experience intermediate or
\* advanced and for difficulty intermediate with experience advanced or
\* expert, 0 otherwise; the two rules never both fire, the bonus is never 3.0.
C17_DifficultyBonusTable ==
    pc = "sort" =>
        \A i \in DOMAIN unique_issues :
            LET issue == unique_issues[i]
                pair == <<issue.difficulty, user_skills.experience_level>>
            IN /\ pair[1] = pair[2] => DifficultyPart(issue) = 4
               /\ pair \in OneStepUp => DifficultyPart(issue) = 2
               /\ (pair[1] # pair[2] /\ pair \notin OneStepUp) => DifficultyPart(issue) = 0
               /\ ~(pair[1] = pair[2] /\ pair \in OneStepUp)
               /\ DifficultyPart(issue) # 6

\* C17 witness: an intermediate issue has been scored for an expert, an
\* expert issue for an intermediate profile would have had no bonus
C17_Witness ==
    /\ pc = "sort"
    /\ unique_issues[1].difficulty = "intermediate"
    /\ user_skills.experience_level = "expert"
    /\ DifficultyPart(unique_issues[1]) = 2
    /\ DifficultyScore("expert", "intermediate") = 0

\* the list with a well-formed recent timestamp at place i
WellFormedAt(list, i) == [list EXCEPT ![i].updated_at = Day(NowDay)]

\* C20: an issue with a malformed updated_at is scored without recency bonus
\* and without raising: its score is the sum of its other components, and
\* every other issue of the pass has the score it has when the malformed
\* timestamp is well-formed.
C20_MalformedTimestampSkipped ==
    pc = "sort" =>
        \A i \in DOMAIN unique_issues :
            ~unique_issues[i].updated_at.valid =>
                /\ ~raised
                /\ failed = 0
                /\ unique_issues[i].relevance_score =
                       SkillScore(Content(unique_issues[i]), user_skills)
                       + LabelScore(unique_issues[i].labels, user_skills.experience_level)
                       + DifficultyScore(unique_issues[i].difficulty,
                                         user_skills.experience_level)
                /\ \A j \in DOMAIN unique_issues \ {i} :
                       unique_issues[j].relevance_score =
                           ScoreIssues(WellFormedAt(unique_issues, i),
                                       user_skills)[j].relevance_score

\* C20 witness: an issue with a malformed timestamp has been scored before
\* a recent one, both with a score above 0
C20_Witness ==
    /\ pc = "sort"
    /\ Len(unique_issues) = 2
    /\ ~unique_issues[1].updated_at.valid
    /\ unique_issues[1].relevance_score > 0
    /\ unique_issues[2].updated_at.valid
    /\ unique_issues[2].relevance_score >= RecencyScore(unique_issues[2].updated_at) + 2

\* the first value of a ladder of thresholds that n reaches, else 0
Reached(n, high, mid, low) ==
    IF n >= high[1] THEN high[2]
    ELSE IF n >= mid[1] THEN mid[2]
    ELSE IF n >= low[1] THEN low[2]
    ELSE 0

\* the account age of the user in days
AgeDays == github_user.updated_at - github_user.created_at

\* the repositories among the first 10 that were updated within 365 days
\* before the user's last update
RecentlyActive ==
    Cardinality({i \in DOMAIN github_user.repos :
                    i <= 10 /\ github_user.updated_at - github_user.repos[i].updated_at <= 365})

\* the total of the point scale; a year is 365.25 days, so days / 365.25 >= n
\* is 4 * days >= 1461 * n
ExperiencePoints ==
    Reached(4 * AgeDays, <<5 * 1461, 3>>, <<2 * 1461, 2>>, <<1461, 1>>)
    + Reached(github_user.public_repos, <<50, 3>>, <<20, 2>>, <<5, 1>>)
    + Reached(github_user.followers, <<100, 2>>, <<20, 1>>, <<20, 1>>)
    + Reached(RecentlyActive, <<5, 2>>, <<2, 1>>, <<2, 1>>)

\* C18: _estimate_experience_level returns the tier of the additive point
\* scale (age, repositories, followers, recent activity): expert from 8,
\* advanced from 5, intermediate from 2, else beginner; and intermediate
\* when reading an input fails.
C18_ExperienceTier ==
    pc = "estimated" =>
        user_skills.experience_level =
            IF ~github_user.complete THEN "intermediate"
            ELSE IF ExperiencePoints >= 8 THEN "expert"
            ELSE IF ExperiencePoints >= 5 THEN "advanced"
            ELSE IF ExperiencePoints >= 2 THEN "intermediate"
            ELSE "beginner"

\* C18 witness: a user of exactly 8 points (5 years, 20 repositories, 20
\* followers, 5 active repositories) has been estimated expert
C18_Witness ==
    /\ pc = "estimated"
    /\ github_user.complete
    /\ AgeDays = 1827
    /\ github_user.public_repos = 20
    /\ github_user.followers = 20
    /\ RecentlyActive = 5
    /\ user_skills.experience_level = "expert"

\* C19: html and css are never among the languages of a returned profile,
\* whatever the repositories' languages and the bio contain.
C19_NoMarkupLanguages ==
    (pc = "analyzed" /\ user_skills # NoSkills) =>
        {"html", "css"} \cap Range(user_skills.languages) = {}

\* the skills of the profile
ProfileSkills == Range(user_skills.languages) \cup Range(user_skills.technologies)

\* the skills of the profile that occur in the title and body of an issue,
\* without regard to case
OccurringSkills(issue) ==
    {skill \in ProfileSkills :
        Contains(Lower(skill), Lower(issue.title \o " " \o issue.body))}

\* the skills the searches of this call were made for
QueriedSkills == Range(TopLanguages) \cup Range(TopTechnologies)

\* whether the scoring pass has run to its end
ScoringDone == pc = "sort" \/ (pc = "done" /\ ~raised)

\* C22: after scoring, matched_skills of every issue is exactly the set of
\* profile skills that occur in its title and body without regard to case;
\* before scoring it is the one skill of the query that produced the issue,
\* which scoring keeps only if it occurs in the content.
C22_MatchedSkillsRederived ==
    /\ pc = "score" =>
            \A i \in DOMAIN unique_issues :
                \E skill \in QueriedSkills : unique_issues[i].matched_skills = {skill}
    /\ ScoringDone =>
            /\ \A i \in DOMAIN unique_issues :
                    unique_issues[i].matched_skills = OccurringSkills(unique_issues[i])
            /\ \A i \in DOMAIN result :
                    result[i].matched_skills = OccurringSkills(result[i])

\* C22 witness: a call has returned one issue whose matched_skills is empty
\* and one that keeps a skill found in its content
C22_Witness ==
    /\ pc = "done"
    /\ ~raised
    /\ \E i, j \in DOMAIN result :
            /\ result[i].matched_skills = {}
            /\ result[j].matched_skills # {}

\* the candidates the call holds, in whatever list
Candidates ==
    Range(issues) \cup Range(all_issues) \cup Range(unique_issues) \cup Range(result)

\* C23: every candidate has difficulty beginner, intermediate or expert,
\* never advanced; so a profile of experience level advanced gets the +2.0
\* of an exact difficulty match on no issue, and at most the +1.0 of one step.
C23_NeverAdvanced ==
    /\ \A issue \in Candidates : issue.difficulty \in {"beginner", "intermediate", "expert"}
    /\ (ScoringDone /\ user_skills.experience_level = "advanced") =>
            \A i \in DOMAIN unique_issues :
                /\ DifficultyPart(unique_issues[i]) # 4
                /\ DifficultyPart(unique_issues[i]) <= 2

\* C23 witness: an issue that the body's keywords make expert has been
\* returned to a profile of level advanced, and its difficulty gave nothing
C23_Witness ==
    /\ pc = "done"
    /\ user_skills.experience_level = "advanced"
    /\ Len(result) = 1
    /\ result[1].labels = <<>>
    /\ result[1].difficulty = "expert"
    /\ DifficultyPart(result[1]) = 0

\* the skills of the profile a call was given
SkillsOf(frame) ==
    Range(frame.user_skills.languages) \cup Range(frame.user_skills.technologies)

\* the candidates a call holds, in whatever list
CandidatesOf(frame) ==
    Range(frame.issues) \cup Range(frame.all_issues) \cup Range(frame.unique_issues)
    \cup Range(frame.result)

\* what a call returns when it runs alone on the candidates it was given
RankedAlone(frame) ==
    Take(SortByScore(ScoreIssues(RemoveDuplicates(frame.all_issues), frame.user_skills)),
         frame.max_results)

\* a call's lists hold what this call wrote: candidates of its own queries,
\* scored for its own profile, and the result of its own candidates
OwnWritesOnly(frame) ==
    /\ \A issue \in CandidatesOf(frame) :
            /\ issue.matched_skills \subseteq SkillsOf(frame)
            /\ issue.relevance_score \in {0, Score(issue, frame.user_skills)}
    /\ frame.pc \in {"sort", "done"} =>
            \A i \in DOMAIN frame.unique_issues :
                LET issue == frame.unique_issues[i]
                IN /\ issue.relevance_score = Score(issue, frame.user_skills)
                   /\ issue.matched_skills = MatchedSkills(Content(issue), frame.user_skills)
    /\ frame.pc = "done" => frame.result = RankedAlone(frame)

\* a step that leaves the waiting call's variables as they are, or hands the
\* event loop over with both calls' variables kept
FramesKept ==
    \/ suspended' = suspended
    \/ (suspended' = Frame /\ Frame' = suspended)

\* C21: two calls served by the same IssueMatcher that interleave at their
\* awaits share no mutable state: the candidate list, scores and matched
\* skills of each are written by that call only, and each returns what it
\* returns when run alone.
C21_NoSharedState ==
    /\ [](OwnWritesOnly(Frame) /\ OwnWritesOnly(suspended))
    /\ [][FramesKept]_vars

\* C21 witness: the first call has returned its issue while the second, begun
\* before, waits in a search with a candidate of its own
C21_Witness ==
    /\ pc = "done"
    /\ user_skills = FirstProfile
    /\ Len(result) = 1
    /\ suspended.pc = "technology_search"
    /\ suspended.user_skills = SecondProfile
    /\ Len(suspended.all_issues) = 1
    /\ Len(suspended.issues) = 1

====
